---- MODULE Spec2Model ----
(***************************************************************************)
(* Model of ol/events/condition (src/ol/events/condition.js): the library  *)
(* of boolean conditions over a MapBrowserEvent.  Every exported condition *)
(* is an operator computed as the JavaScript computes it; a call of a      *)
(* condition is an action that records the completion of the call (a       *)
(* returned value or a thrown error) in `result`.                          *)
(***************************************************************************)
EXTENDS Integers, FiniteSets, Sequences, TLC

(***************************************************************************)
(* Bounds.                                                                 *)
(***************************************************************************)
\* Largest value of a `button` field; buttons range over -1..MaxButton
\* (-1 is the pointer-events value for "no button changed").
MaxButton == 2

\* The events drawn by Init differ from BaseEvent in at most this many of
\* the field groups (type, modifier keys, button, tagName, pointerEvent,
\* target element); every pair of groups is covered jointly and in full.
MaxDeviations == 2

(***************************************************************************)
(* Values imported from modules of the repository.                         *)
(***************************************************************************)
\* MapBrowserEventType.CLICK / SINGLECLICK / DBLCLICK
CLICK == "click"
SINGLECLICK == "singleclick"
DBLCLICK == "dblclick"

\* Outcome of a call: a normal completion with a value ...
Return(value) ==
  [completion |-> "return", value |-> value, error |-> "none", code |-> 0]

\* ... or an abrupt completion that propagates to the caller.
Throw(error, code) ==
  [completion |-> "throw", value |-> FALSE, error |-> error, code |-> code]

\* assert(assertion, errorCode) of ol/asserts: throws AssertionError with
\* the code when the assertion is falsy; `rest` is the continuation.
assert(assertion, errorCode, rest) ==
  IF assertion THEN rest ELSE Throw("AssertionError", errorCode)

(***************************************************************************)
(* The input domain.                                                       *)
(***************************************************************************)
Buttons == -1..MaxButton

EventTypes == {CLICK, SINGLECLICK, DBLCLICK, "pointermove", "pointerdrag"}

TagNames ==
  {"INPUT", "SELECT", "TEXTAREA", "input", "select", "textarea", "", "DIV"}

PointerTypes == {"mouse", "touch", "pen"}

Elements == {"mapDiv", "searchBox"}

\* event.originalEvent: the browser event
OriginalEvents ==
  [altKey : BOOLEAN, shiftKey : BOOLEAN, ctrlKey : BOOLEAN,
   metaKey : BOOLEAN, button : Buttons, target : [tagName : TagNames]]

\* event.pointerEvent: undefined is <<>>, an object p is <<p>>
PointerEvents ==
  {<< >>} \cup
  {<<p>> : p \in [pointerType : PointerTypes, isPrimary : BOOLEAN,
                  button : Buttons]}

\* event.target is the map; targetElement is what getTargetElement() returns
MapBrowserEvents ==
  [type : EventTypes, originalEvent : OriginalEvents,
   pointerEvent : PointerEvents, target : [targetElement : Elements]]

BaseEvent ==
  [type |-> "pointerdrag",
   originalEvent |->
     [altKey |-> FALSE, shiftKey |-> FALSE, ctrlKey |-> FALSE,
      metaKey |-> FALSE, button |-> 0, target |-> [tagName |-> "DIV"]],
   pointerEvent |->
     <<[pointerType |-> "mouse", isPrimary |-> TRUE, button |-> 0]>>,
   target |-> [targetElement |-> "mapDiv"]]

Modifiers(originalEvent) ==
  <<originalEvent.altKey, originalEvent.shiftKey,
    originalEvent.ctrlKey, originalEvent.metaKey>>

Bit(b) == IF b THEN 1 ELSE 0

Deviations(e) ==
    Bit(e.type # BaseEvent.type)
  + Bit(Modifiers(e.originalEvent) # Modifiers(BaseEvent.originalEvent))
  + Bit(e.originalEvent.button # BaseEvent.originalEvent.button)
  + Bit(e.originalEvent.target # BaseEvent.originalEvent.target)
  + Bit(e.pointerEvent # BaseEvent.pointerEvent)
  + Bit(e.target # BaseEvent.target)

InputEvents == {e \in MapBrowserEvents : Deviations(e) <= MaxDeviations}

\* JavaScript truthiness of event.pointerEvent (an object or undefined)
Truthy(pointerEvent) == pointerEvent # << >>

\* String.prototype.toUpperCase on the tag names of the domain
ToUpperCase(tagName) ==
  CASE tagName = "input" -> "INPUT"
    [] tagName = "select" -> "SELECT"
    [] tagName = "textarea" -> "TEXTAREA"
    [] OTHER -> tagName

(***************************************************************************)
(* State.                                                                  *)
(***************************************************************************)
VARIABLES
  event,          \* the MapBrowserEvent the caller passes to the conditions
  WEBKIT,         \* ol/has WEBKIT
  MAC,            \* ol/has MAC
  activeElement,  \* document.activeElement
  result          \* the last call: [fn |-> condition, out |-> completion]

vars == <<event, WEBKIT, MAC, activeElement, result>>

NotCalled == [fn |-> "none", out |-> Return(FALSE)]

(***************************************************************************)
(* The conditions.                                                         *)
(***************************************************************************)
altKeyOnly(mapBrowserEvent) ==
  LET originalEvent == mapBrowserEvent.originalEvent
  IN  Return(originalEvent.altKey
             /\ ~(originalEvent.metaKey \/ originalEvent.ctrlKey)
             /\ ~originalEvent.shiftKey)

altShiftKeysOnly_noShift(mapBrowserEvent) ==
  LET originalEvent == mapBrowserEvent.originalEvent
  IN  Return(originalEvent.altKey
             /\ ~(originalEvent.metaKey \/ originalEvent.ctrlKey))

altShiftKeysOnly(mapBrowserEvent) ==
  LET originalEvent == mapBrowserEvent.originalEvent
  IN  Return(originalEvent.altKey
             /\ ~(originalEvent.metaKey \/ originalEvent.ctrlKey)
             /\ originalEvent.shiftKey)

focus(mapBrowserEvent) ==
  Return(mapBrowserEvent.target.targetElement = activeElement)

always(mapBrowserEvent) == Return(TRUE)

click_singleClick(mapBrowserEvent) ==
  Return(mapBrowserEvent.type = CLICK \/ mapBrowserEvent.type = SINGLECLICK)

click(mapBrowserEvent) == Return(mapBrowserEvent.type = CLICK)

mouseActionButton_noWebkit(mapBrowserEvent) ==
  LET originalEvent == mapBrowserEvent.originalEvent
  IN  Return(originalEvent.button = 0 /\ ~(MAC /\ originalEvent.ctrlKey))

mouseActionButton(mapBrowserEvent) ==
  LET originalEvent == mapBrowserEvent.originalEvent
  IN  Return(originalEvent.button = 0
             /\ ~(WEBKIT /\ MAC /\ originalEvent.ctrlKey))

never(mapBrowserEvent) == Return(FALSE)

pointerMove(mapBrowserEvent) == Return(mapBrowserEvent.type = "pointermove")

singleClick(mapBrowserEvent) == Return(mapBrowserEvent.type = SINGLECLICK)

doubleClick(mapBrowserEvent) == Return(mapBrowserEvent.type = DBLCLICK)

noModifierKeys_noPlatformKey(mapBrowserEvent) ==
  LET originalEvent == mapBrowserEvent.originalEvent
  IN  Return(~originalEvent.altKey /\ ~originalEvent.shiftKey)

noModifierKeys(mapBrowserEvent) ==
  LET originalEvent == mapBrowserEvent.originalEvent
  IN  Return(~originalEvent.altKey
             /\ ~(originalEvent.metaKey \/ originalEvent.ctrlKey)
             /\ ~originalEvent.shiftKey)

platformModifierKeyOnly_swapped(mapBrowserEvent) ==
  LET originalEvent == mapBrowserEvent.originalEvent
  IN  Return(~originalEvent.altKey
             /\ (IF MAC THEN originalEvent.ctrlKey ELSE originalEvent.metaKey)
             /\ ~originalEvent.shiftKey)

platformModifierKeyOnly(mapBrowserEvent) ==
  LET originalEvent == mapBrowserEvent.originalEvent
  IN  Return(~originalEvent.altKey
             /\ (IF MAC THEN originalEvent.metaKey ELSE originalEvent.ctrlKey)
             /\ ~originalEvent.shiftKey)

shiftKeyOnly_noMeta(mapBrowserEvent) ==
  LET originalEvent == mapBrowserEvent.originalEvent
  IN  Return(~originalEvent.altKey
             /\ ~originalEvent.ctrlKey
             /\ originalEvent.shiftKey)

shiftKeyOnly(mapBrowserEvent) ==
  LET originalEvent == mapBrowserEvent.originalEvent
  IN  Return(~originalEvent.altKey
             /\ ~(originalEvent.metaKey \/ originalEvent.ctrlKey)
             /\ originalEvent.shiftKey)

targetNotEditable_anyCase(mapBrowserEvent) ==
  LET target == mapBrowserEvent.originalEvent.target
      tagName == ToUpperCase(target.tagName)
  IN  Return(tagName # "INPUT" /\ tagName # "SELECT" /\ tagName # "TEXTAREA")

targetNotEditable(mapBrowserEvent) ==
  LET target == mapBrowserEvent.originalEvent.target
      tagName == target.tagName
  IN  Return(tagName # "INPUT" /\ tagName # "SELECT" /\ tagName # "TEXTAREA")

\* Reading a property of undefined throws a TypeError.
mouseOnly_noAssert(mapBrowserEvent) ==
  IF mapBrowserEvent.pointerEvent = << >>
  THEN Throw("TypeError", 0)
  ELSE Return(mapBrowserEvent.pointerEvent[1].pointerType = "mouse")

mouseOnly(mapBrowserEvent) ==
  assert(Truthy(mapBrowserEvent.pointerEvent), 56,
         Return(mapBrowserEvent.pointerEvent[1].pointerType = "mouse"))

\* pointerEvent.isPrimary on an undefined pointerEvent throws a TypeError.
primaryAction(mapBrowserEvent) ==
  LET pointerEvent == mapBrowserEvent.pointerEvent
  IN  IF pointerEvent = << >>
      THEN Throw("TypeError", 0)
      ELSE Return(pointerEvent[1].isPrimary /\ pointerEvent[1].button = 0)

(***************************************************************************)
(* Initial states and the calls.                                           *)
(***************************************************************************)
Init ==
  /\ event \in InputEvents
  /\ WEBKIT \in BOOLEAN
  /\ MAC \in BOOLEAN
  /\ activeElement \in Elements
  /\ result = NotCalled

\* A call reads the event and the environment and writes nothing.
Called(fn, out) ==
  /\ result' = [fn |-> fn, out |-> out]
  /\ UNCHANGED <<event, WEBKIT, MAC, activeElement>>

CallAltKeyOnly == Called("altKeyOnly", altKeyOnly(event))

CallAltShiftKeysOnly == Called("altShiftKeysOnly", altShiftKeysOnly(event))

CallFocus == Called("focus", focus(event))

CallAlways == Called("always", always(event))

\* `mapBrowserEvent.type = MapBrowserEventType.CLICK`: an assignment in
\* place of the comparison.
CallClick_assign ==
  /\ result' = [fn |-> "click", out |-> Return(TRUE)]
  /\ event' = [event EXCEPT !.type = CLICK]
  /\ UNCHANGED <<WEBKIT, MAC, activeElement>>

CallClick == Called("click", click(event))

CallMouseActionButton == Called("mouseActionButton", mouseActionButton(event))

CallNever == Called("never", never(event))

CallPointerMove == Called("pointerMove", pointerMove(event))

CallSingleClick == Called("singleClick", singleClick(event))

CallDoubleClick == Called("doubleClick", doubleClick(event))

CallNoModifierKeys == Called("noModifierKeys", noModifierKeys(event))

CallPlatformModifierKeyOnly ==
  Called("platformModifierKeyOnly", platformModifierKeyOnly(event))

CallShiftKeyOnly == Called("shiftKeyOnly", shiftKeyOnly(event))

CallTargetNotEditable == Called("targetNotEditable", targetNotEditable(event))

CallMouseOnly == Called("mouseOnly", mouseOnly(event))

CallPrimaryAction == Called("primaryAction", primaryAction(event))

Next ==
  \/ CallAltKeyOnly
  \/ CallAltShiftKeysOnly
  \/ CallFocus
  \/ CallAlways
  \/ CallClick
  \/ CallMouseActionButton
  \/ CallNever
  \/ CallPointerMove
  \/ CallSingleClick
  \/ CallDoubleClick
  \/ CallNoModifierKeys
  \/ CallPlatformModifierKeyOnly
  \/ CallShiftKeyOnly
  \/ CallTargetNotEditable
  \/ CallMouseOnly
  \/ CallPrimaryAction

Spec == Init /\ [][Next]_vars

TypeOK ==
  /\ event \in MapBrowserEvents
  /\ WEBKIT \in BOOLEAN
  /\ MAC \in BOOLEAN
  /\ activeElement \in Elements
  /\ result.out.completion \in {"return", "throw"}

(***************************************************************************)
(* Properties.                                                             *)
(***************************************************************************)
oe == event.originalEvent

PlatformKey == oe.ctrlKey \/ oe.metaKey

\* C1: primaryAction on an event without pointerEvent returns false and
\* does not fail; with a pointerEvent it returns true iff isPrimary is set
\* and the pointer's button is 0.
C1_PrimaryActionTotal ==
  result.fn = "primaryAction" =>
    IF event.pointerEvent = << >>
    THEN result.out = Return(FALSE)
    ELSE result.out = Return(event.pointerEvent[1].isPrimary
                             /\ event.pointerEvent[1].button = 0)

ModifierClasses ==
  {"altKeyOnly", "altShiftKeysOnly", "shiftKeyOnly", "noModifierKeys"}

ModifierClassOutcome(fn) ==
  CASE fn = "altKeyOnly" -> altKeyOnly(event)
    [] fn = "altShiftKeysOnly" -> altShiftKeysOnly(event)
    [] fn = "shiftKeyOnly" -> shiftKeyOnly(event)
    [] fn = "noModifierKeys" -> noModifierKeys(event)

\* C2: for every combination of the modifier flags at most one of
\* altKeyOnly, altShiftKeysOnly, shiftKeyOnly and noModifierKeys returns
\* true: when a call of one of them returned true, each of the other three
\* returns false on the same event.
C2_AtMostOneModifierClass ==
  (result.fn \in ModifierClasses /\ result.out = Return(TRUE)) =>
    \A other \in ModifierClasses \ {result.fn} :
      ModifierClassOutcome(other) = Return(FALSE)

C2_Witness ==
  /\ result.fn = "altShiftKeysOnly"
  /\ result.out = Return(TRUE)

\* C3: mouseOnly throws the assertion error 56 to its caller exactly when
\* the event has no pointerEvent, and otherwise returns true iff the
\* pointerType is mouse.
C3_MouseOnly ==
  result.fn = "mouseOnly" =>
    IF event.pointerEvent = << >>
    THEN result.out = Throw("AssertionError", 56)
    ELSE /\ result.out.completion = "return"
         /\ result.out.value
              <=> (event.pointerEvent[1].pointerType = "mouse")

C3_Witness ==
  /\ result.fn = "mouseOnly"
  /\ event.pointerEvent = << >>
  /\ result.out.completion = "throw"

\* C4: mouseActionButton returns true iff the button is 0 and WebKit, Mac
\* and ctrlKey are not all set; it is false for every other button.
C4_MouseActionButton ==
  result.fn = "mouseActionButton" =>
    /\ result.out.completion = "return"
    /\ oe.button # 0 => ~result.out.value
    /\ oe.button = 0 =>
         (result.out.value <=> ~(WEBKIT /\ MAC /\ oe.ctrlKey))

C4_Witness ==
  /\ result.fn = "mouseActionButton"
  /\ oe.button = 0 /\ WEBKIT /\ MAC /\ oe.ctrlKey /\ oe.altKey
  /\ result.out = Return(FALSE)

\* C5: platformModifierKeyOnly is false when altKey or shiftKey is set;
\* with both unset it equals ctrlKey on a non-Mac platform and metaKey on
\* a Mac platform, whatever the other of the two keys is.
C5_PlatformModifierKeyOnly ==
  result.fn = "platformModifierKeyOnly" =>
    /\ result.out.completion = "return"
    /\ (oe.altKey \/ oe.shiftKey) => ~result.out.value
    /\ (~oe.altKey /\ ~oe.shiftKey /\ ~MAC) =>
         (result.out.value <=> oe.ctrlKey)
    /\ (~oe.altKey /\ ~oe.shiftKey /\ MAC) =>
         (result.out.value <=> oe.metaKey)

C5_Witness ==
  /\ result.fn = "platformModifierKeyOnly"
  /\ MAC /\ oe.ctrlKey /\ ~oe.metaKey /\ ~oe.altKey /\ ~oe.shiftKey
  /\ result.out = Return(FALSE)

\* C6: targetNotEditable returns false exactly for the tag names INPUT,
\* SELECT and TEXTAREA, and true for every other tag name, the empty
\* string and the lowercase variants included.
C6_TargetNotEditable ==
  result.fn = "targetNotEditable" =>
    result.out =
      Return(oe.target.tagName \notin {"INPUT", "SELECT", "TEXTAREA"})

C6_Witness ==
  /\ result.fn = "targetNotEditable"
  /\ oe.target.tagName = "textarea"
  /\ result.out = Return(TRUE)

TypeConditions == {"click", "singleClick", "doubleClick", "pointerMove"}

OwnType(fn) ==
  CASE fn = "click" -> "click"
    [] fn = "singleClick" -> "singleclick"
    [] fn = "doubleClick" -> "dblclick"
    [] fn = "pointerMove" -> "pointermove"

TypeConditionOutcome(fn) ==
  CASE fn = "click" -> click(event)
    [] fn = "singleClick" -> singleClick(event)
    [] fn = "doubleClick" -> doubleClick(event)
    [] fn = "pointerMove" -> pointerMove(event)

\* C7: click, singleClick, doubleClick and pointerMove each return true
\* iff the event's type is their own type, whatever the other fields are;
\* so at most one of the four is true, and none for another type.
C7_TypeConditions ==
  result.fn \in TypeConditions =>
    /\ result.out = Return(event.type = OwnType(result.fn))
    /\ result.out = Return(TRUE) =>
         \A other \in TypeConditions \ {result.fn} :
           TypeConditionOutcome(other) = Return(FALSE)
    /\ event.type = "pointerdrag" => result.out = Return(FALSE)

C7_Witness ==
  /\ result.fn = "singleClick"
  /\ event.type = SINGLECLICK
  /\ oe.shiftKey
  /\ result.out = Return(TRUE)

\* C8: every condition is pure: a call leaves the event, the platform
\* flags and the focused element unchanged, and a call of the condition
\* that was called last gives the same outcome again.
C8_Pure ==
  [][/\ event' = event
     /\ WEBKIT' = WEBKIT
     /\ MAC' = MAC
     /\ activeElement' = activeElement
     /\ (result.fn = result'.fn => result'.out = result.out)]_vars

C8_Witness ==
  /\ result.fn = "click"
  /\ event.type = DBLCLICK
  /\ result.out = Return(FALSE)

\* C9: with P = ctrlKey or metaKey: altKeyOnly iff alt, not shift, not P;
\* altShiftKeysOnly iff alt, shift, not P; shiftKeyOnly iff shift, not
\* alt, not P; noModifierKeys iff none of the four keys; independent of
\* the platform flags.
C9_ModifierConditions ==
  /\ result.fn = "altKeyOnly" =>
       result.out = Return(oe.altKey /\ ~oe.shiftKey /\ ~PlatformKey)
  /\ result.fn = "altShiftKeysOnly" =>
       result.out = Return(oe.altKey /\ oe.shiftKey /\ ~PlatformKey)
  /\ result.fn = "shiftKeyOnly" =>
       result.out = Return(oe.shiftKey /\ ~oe.altKey /\ ~PlatformKey)
  /\ result.fn = "noModifierKeys" =>
       result.out = Return(~oe.altKey /\ ~oe.shiftKey
                           /\ ~oe.ctrlKey /\ ~oe.metaKey)

C9_Witness ==
  /\ result.fn = "shiftKeyOnly"
  /\ oe.shiftKey /\ oe.metaKey /\ ~oe.ctrlKey /\ ~oe.altKey
  /\ result.out = Return(FALSE)

\* C10: on both platforms, whenever platformModifierKeyOnly returns true,
\* altKeyOnly, altShiftKeysOnly, shiftKeyOnly and noModifierKeys all
\* return false for that event.
C10_PlatformKeyIsOtherClass ==
  (result.fn = "platformModifierKeyOnly" /\ result.out = Return(TRUE)) =>
    \A fn \in ModifierClasses : ModifierClassOutcome(fn) = Return(FALSE)

C10_Witness ==
  /\ result.fn = "platformModifierKeyOnly"
  /\ result.out = Return(TRUE)
  /\ MAC /\ oe.ctrlKey

====
